---- MODULE Spec2Model ----
(***************************************************************************)
(* A model of src/src/cedarscript_ast_parser.py: the facade parse_script,  *)
(* the diagnostic collector, the command builder, the string and content   *)
(* decoders and the files_to_change properties of the command model.       *)
(*                                                                         *)
(* Conventions.  Text is a sequence of one-character strings.  A Python    *)
(* call either returns or raises: Ok(v) / Raise(m).  An optional value is  *)
(* <<>> (None) or <<v>>.  A syntax-tree node is a record                   *)
(*   [type, named, has_error, row, col, text, children]                    *)
(* as the parsing engine hands it over; the absent node (Python None) is   *)
(* NoneNode.                                                               *)
(***************************************************************************)
EXTENDS Integers, Sequences, FiniteSets, TLC

VARIABLES
    script,           \* the input: the tree the engine yields, or its failure
    pc,               \* position inside parse_script
    idx,              \* index of the next top-level child of the root
    command_ordinal,  \* parse_script's local command_ordinal
    commands,         \* parse_script's local commands list
    raised,           \* <<>> or <<[step, at, msg]>>: the exception caught, if any
    result,           \* <<commands, diagnostics>> returned, once pc = "done"
    fn_in,            \* input of a pure function under check
    fn_out            \* <<>> before the call, <<value>> after it

vars == <<script, pc, idx, command_ordinal, commands, raised, result, fn_in, fn_out>>
mainVars == <<script, pc, idx, command_ordinal, commands, raised, result>>
fnVars == <<fn_in, fn_out>>

----------------------------------------------------------------------------
(* Bounds of the model *)

\* longest list of top-level nodes of a script
MaxTop == 3
\* longest relative-indent block, in lines
MaxLines == 2
\* largest indent level N of an @N: directive
MaxIndent == 2
\* longest content of a quoted token, in characters
MaxContent == 3

----------------------------------------------------------------------------
(* Python values *)

Ok(v) == [ok |-> TRUE, val |-> v]
\* m is str(e), the exception's description
Raise(m) == [ok |-> FALSE, msg |-> m]

\* run F on the value r returned, or pass the exception r raised on
Bind(r, F(_)) == IF r.ok THEN F(r.val) ELSE r

NoneHasNoType == "'NoneType' object has no attribute 'type'"
NoneHasNoChildren == "'NoneType' object has no attribute 'children'"
NoneHasNoNamedChildren == "'NoneType' object has no attribute 'named_children'"
NoneHasNoText == "'NoneType' object has no attribute 'text'"
IndexOutOfRange == "list index out of range"

None == <<>>
Some(v) == <<v>>

SQ == "'"
DQ == "\""
BS == "\\"
NL == "\n"
SP == " "

Min(S) == CHOOSE m \in S : \A n \in S : m <= n

\* n copies of the text s
RECURSIVE Repeat(_, _)
Repeat(s, n) == IF n <= 0 THEN <<>> ELSE s \o Repeat(s, n - 1)

\* sep.join(ss)
RECURSIVE Join(_, _)
Join(sep, ss) ==
    IF ss = <<>> THEN <<>>
    ELSE IF Len(ss) = 1 THEN Head(ss)
    ELSE Head(ss) \o sep \o Join(sep, Tail(ss))

\* str.lstrip(chars) / str.rstrip(chars) / str.strip(chars): every leading
\* and trailing character that is in the set chars is removed
RECURSIVE LStrip(_, _)
LStrip(s, chars) ==
    IF s # <<>> /\ Head(s) \in chars THEN LStrip(Tail(s), chars) ELSE s

RECURSIVE RStrip(_, _)
RStrip(s, chars) ==
    IF s # <<>> /\ s[Len(s)] \in chars
    THEN RStrip(SubSeq(s, 1, Len(s) - 1), chars)
    ELSE s

Strip(s, chars) == RStrip(LStrip(s, chars), chars)

StartsWith(s, p) == Len(s) >= Len(p) /\ SubSeq(s, 1, Len(p)) = p
EndsWith(s, p) == Len(s) >= Len(p) /\ SubSeq(s, Len(s) - Len(p) + 1, Len(s)) = p

\* str.removeprefix / str.removesuffix: at most one occurrence is removed
RemovePrefix(s, p) ==
    IF p # <<>> /\ StartsWith(s, p) THEN SubSeq(s, Len(p) + 1, Len(s)) ELSE s
RemoveSuffix(s, p) ==
    IF p # <<>> /\ EndsWith(s, p) THEN SubSeq(s, 1, Len(s) - Len(p)) ELSE s

\* str.replace(old, new): every non-overlapping occurrence, left to right
RECURSIVE Replace(_, _, _)
Replace(s, old, new) ==
    IF s = <<>> THEN <<>>
    ELSE IF StartsWith(s, old)
         THEN new \o Replace(SubSeq(s, Len(old) + 1, Len(s)), old, new)
         ELSE <<Head(s)>> \o Replace(Tail(s), old, new)

DigitValue(c) ==
    CASE c = "0" -> 0 [] c = "1" -> 1 [] c = "2" -> 2 [] c = "3" -> 3
      [] c = "4" -> 4 [] c = "5" -> 5 [] c = "6" -> 6 [] c = "7" -> 7
      [] c = "8" -> 8 [] c = "9" -> 9
Digits == {"0", "1", "2", "3", "4", "5", "6", "7", "8", "9"}

RECURSIVE DigitsToInt(_, _)
DigitsToInt(s, acc) ==
    IF s = <<>> THEN acc ELSE DigitsToInt(Tail(s), 10 * acc + DigitValue(Head(s)))

\* int(text) on a run of decimal digits; anything else raises ValueError
PyInt(s) ==
    IF s # <<>> /\ \A i \in 1..Len(s) : s[i] \in Digits
    THEN Ok(DigitsToInt(s, 0))
    ELSE Raise("invalid literal for int() with base 10")

\* str.casefold() on the node-type vocabulary: the keyword tokens are upper
\* case, every other node type is already lower case
Casefold(t) ==
    CASE t = "LINE" -> "line" [] t = "VARIABLE" -> "variable"
      [] t = "FUNCTION" -> "function" [] t = "CLASS" -> "class"
      [] t = "BEFORE" -> "before" [] t = "AFTER" -> "after"
      [] t = "INSIDE" -> "inside" [] t = "AT" -> "at"
      [] t = "BODY" -> "body" [] t = "WHOLE" -> "whole"
      [] t = "ERROR" -> "error"
      [] OTHER -> t

----------------------------------------------------------------------------
(* Syntax-tree nodes, as the parsing engine yields them *)

NoneNode == [type |-> "<None>"]
IsNone(n) == n.type = "<None>"

\* has_error of an inner node: the node is an ERROR node or a child has an error
Node(type, named, children) ==
    [type |-> type, named |-> named,
     has_error |-> (type = "ERROR" \/ \E i \in 1..Len(children) : children[i].has_error),
     row |-> 0, col |-> 0, text |-> <<>>, children |-> children]

\* a leaf carrying source text
Leaf(type, named, text) ==
    [type |-> type, named |-> named, has_error |-> (type = "ERROR"),
     row |-> 0, col |-> 0, text |-> text, children |-> <<>>]

\* an anonymous keyword token
Tok(type) == Leaf(type, FALSE, <<>>)

\* a node the engine inserted to recover from a missing token: it has the
\* type of the expected token, no text, and counts as an error
Missing(type, named) ==
    [type |-> type, named |-> named, has_error |-> TRUE,
     row |-> 0, col |-> 0, text |-> <<>>, children |-> <<>>]

NamedChildren(node) == SelectSeq(node.children, LAMBDA c : c.named)

\* the node moved to start point (row, col); its descendants follow on the
\* same row, each one column further than its left neighbour
RECURSIVE PlaceAt(_, _, _), PlaceAll(_, _, _)
PlaceAt(node, row, col) ==
    [node EXCEPT !.row = row, !.col = col,
                 !.children = PlaceAll(node.children, row, col + 1)]
PlaceAll(nodes, row, col) ==
    IF nodes = <<>> THEN <<>>
    ELSE <<PlaceAt(Head(nodes), row, col)>> \o PlaceAll(Tail(nodes), row, col + 1)

FindFirstByType(nodes, types) ==
    LET hits == {i \in 1..Len(nodes) : nodes[i].type \in types}
    IN  IF hits = {} THEN NoneNode ELSE nodes[Min(hits)]

----------------------------------------------------------------------------
(* String / content decoder *)

Quotes == {SQ, DQ}

\* the decoding parse_string applies to the text of a node of type t
DecodeString(t, text) ==
    CASE t = "raw_string" -> Strip(text, Quotes)
      [] t = "single_quoted_string" ->
            Strip(Replace(Replace(text, <<BS, SQ>>, <<SQ>>), <<BS, DQ>>, <<DQ>>), Quotes)
      [] t = "multi_line_string" ->
            RemoveSuffix(RemoveSuffix(
                RemovePrefix(RemovePrefix(text, <<SQ, SQ, SQ>>), <<DQ, DQ, DQ>>),
                <<SQ, SQ, SQ>>), <<DQ, DQ, DQ>>)
      [] OTHER -> text

ParseString(node) ==
    IF IsNone(node) THEN Raise(NoneHasNoType)
    ELSE IF Casefold(node.type) = "string"
    THEN IF NamedChildren(node) = <<>> THEN Raise(IndexOutOfRange)
         ELSE LET inner == NamedChildren(node)[1]
              IN  Ok(DecodeString(Casefold(inner.type), inner.text))
    ELSE Ok(DecodeString(Casefold(node.type), node.text))

\* str.strip of three single quotes, then of three double quotes: each
\* argument is a set of characters
ParseMultilineString(node) == Ok(Strip(Strip(node.text, {SQ}), {DQ}))

\* A call argument: a str literal or a bytes literal naming a set of characters
PyStr(chars) == [py |-> "str", chars |-> chars]
PyBytes(chars) == [py |-> "bytes", chars |-> chars]

\* bytes.strip(arg): node.text is a bytes object (parse_string decodes it), and
\* bytes.strip accepts only a bytes-like argument
BytesStrip(text, arg) ==
    IF arg.py = "bytes" THEN Ok(Strip(text, arg.chars))
    ELSE Raise("a bytes-like object is required, not 'str'")

\* f"{b}" of a bytes object b: its repr
BytesRepr(text) == <<"b", SQ>> \o text \o <<SQ>>

\* one line of a relative-indent block: <<>> when the line is skipped,
\* <<text>> when it is emitted; raises as the code does
IndentLine(line_node) ==
    IF line_node.type # "relative_indent_line" THEN Ok(<<>>)
    ELSE IF IsNone(FindFirstByType(line_node.children, {"relative_indent_prefix"}))
            \/ IsNone(FindFirstByType(line_node.children, {"match_any_char"}))
    THEN Ok(<<>>)
    ELSE Bind(BytesStrip(FindFirstByType(line_node.children,
                                         {"relative_indent_prefix"}).text,
                         PyStr({"@", ":"})),
              LAMBDA stripped :
                  Bind(PyInt(stripped),
                       LAMBDA indent :
                           Ok(<<Repeat(<<SP>>, 4 * indent)
                                \o BytesRepr(FindFirstByType(line_node.children,
                                                             {"match_any_char"}).text)>>)))

\* the lines list after the loop over line_nodes, or the first exception
RECURSIVE IndentLines(_, _)
IndentLines(line_nodes, lines) ==
    IF line_nodes = <<>> THEN Ok(lines)
    ELSE Bind(IndentLine(Head(line_nodes)),
              LAMBDA line : IndentLines(Tail(line_nodes), lines \o line))

ParseRelativeIndentBlock(node) ==
    Bind(IndentLines(node.children, <<>>), LAMBDA lines : Ok(Join(<<NL>>, lines)))

----------------------------------------------------------------------------
(* Region / location model and command model: the values built *)

MarkerTypes == {"line", "variable", "function", "class"}
RelativePositionTypes == {"at", "before", "after", "inside"}
BodyOrWholeValues == {"body", "whole"}

Marker(type, value, offset) ==
    [cls |-> "Marker", type |-> type, value |-> value, offset |-> offset]
RelativeMarker(qualifier, type, value, offset) ==
    [cls |-> "RelativeMarker", qualifier |-> qualifier,
     type |-> type, value |-> value, offset |-> offset]
Segment(start, end) == [cls |-> "Segment", start |-> start, end |-> end]
BodyOrWhole(v) == [cls |-> "BodyOrWhole", v |-> v]

WhereClause(field, operator, value) ==
    [cls |-> "WhereClause", field |-> field, operator |-> operator, value |-> value]
SingleFileClause(file_path) == [cls |-> "SingleFileClause", file_path |-> file_path]
IdentifierFromFile(identifier_type, file_path, where_clause, offset) ==
    [cls |-> "IdentifierFromFile", identifier_type |-> identifier_type,
     file_path |-> file_path, where_clause |-> where_clause, offset |-> offset]

ReplaceClause(region) == [cls |-> "ReplaceClause", region |-> region]
DeleteClause(region) == [cls |-> "DeleteClause", region |-> region]
InsertClause(insert_position) ==
    [cls |-> "InsertClause", insert_position |-> insert_position]
\* to_other_file and relative_indentation default to None
MoveClause(region, insert_position, to_other_file, relative_indentation) ==
    [cls |-> "MoveClause", region |-> region, insert_position |-> insert_position,
     to_other_file |-> to_other_file, relative_indentation |-> relative_indentation]

CreateCommand(file_path, content) ==
    [cls |-> "CreateCommand", type |-> "create", file_path |-> file_path,
     content |-> content]
RmFileCommand(file_path) ==
    [cls |-> "RmFileCommand", type |-> "rm_file", file_path |-> file_path]
MvFileCommand(file_path, target_path) ==
    [cls |-> "MvFileCommand", type |-> "mv_file", file_path |-> file_path,
     target_path |-> target_path]
UpdateCommand(target, action, content) ==
    [cls |-> "UpdateCommand", type |-> "update", target |-> target,
     action |-> action, content |-> content]

\* FileCommand.files_to_change (CreateCommand and RmFileCommand inherit it)
FileCommandFiles(cmd) == <<cmd.file_path>>

\* MvFileCommand.files_to_change
MvFileCommandFiles(cmd) == FileCommandFiles(cmd) \o <<cmd.target_path>>

\* UpdateCommand.files_to_change: the class pattern binds target_file to the
\* action's to_other_file attribute, and that object is what is appended
UpdateCommandFiles(cmd) ==
    <<cmd.target.file_path>>
        \o (IF cmd.action.cls = "MoveClause" /\ cmd.action.to_other_file # None
            THEN <<cmd.action.to_other_file[1]>>
            ELSE <<>>)

FilesToChange(cmd) ==
    CASE cmd.cls \in {"CreateCommand", "RmFileCommand"} -> FileCommandFiles(cmd)
      [] cmd.cls = "MvFileCommand" -> MvFileCommandFiles(cmd)
      [] cmd.cls = "UpdateCommand" -> UpdateCommandFiles(cmd)
      [] OTHER -> <<>>

ParseError(ordinal, message, line, column, suggestion) ==
    [command_ordinal |-> ordinal, message |-> message, line |-> line,
     column |-> column, suggestion |-> suggestion]

----------------------------------------------------------------------------
(* Tree walker / command builder: leaf clauses *)

ParseSinglefileClause(node) ==
    IF IsNone(node) \/ node.type # "singlefile_clause"
    THEN Raise("Expected singlefile_clause node")
    ELSE IF IsNone(FindFirstByType(node.children, {"string"}))
    THEN Raise("No file_path found in singlefile_clause")
    ELSE Bind(ParseString(FindFirstByType(node.children, {"string"})),
              LAMBDA file_path : Ok(SingleFileClause(file_path)))

ContentTypes == {"string", "relative_indent_block", "multiline_string"}

\* the decoder parse_content_clause picks for content_node
ParseContentNode(content_node) ==
    IF IsNone(content_node) THEN Raise("No content found in content_clause")
    ELSE IF content_node.type = "string" THEN ParseString(content_node)
    ELSE IF content_node.type = "relative_indent_block"
    THEN ParseRelativeIndentBlock(content_node)
    ELSE ParseMultilineString(content_node)

ParseContentClause(node) ==
    IF IsNone(node) \/ node.type # "content_clause"
    THEN Raise("Expected content_clause node")
    ELSE ParseContentNode(FindFirstByType(node.children, ContentTypes))

ParseToValueClause(node) ==
    IF IsNone(node) \/ node.type # "to_value_clause"
    THEN Raise("Expected to_value_clause node")
    ELSE IF IsNone(FindFirstByType(node.children, {"string"}))
    THEN Raise("No value found in to_value_clause")
    ELSE ParseString(FindFirstByType(node.children, {"string"}))

\* int(number.text), number being find_first_by_type(node.children, 'number')
IntOfNumber(number) ==
    IF IsNone(number) THEN Raise(NoneHasNoText)
    ELSE Bind(PyInt(number.text), LAMBDA n : Ok(Some(n)))

ParseOffsetClause(node) ==
    IF IsNone(node) THEN Ok(None)
    ELSE IntOfNumber(FindFirstByType(node.children, {"number"}))

ParseRelativeIndentation(node) ==
    IF IsNone(node) THEN Ok(None)
    ELSE IntOfNumber(FindFirstByType(node.children, {"number"}))

ParseUpdateContent(node) ==
    IF IsNone(FindFirstByType(node.children, {"content_clause"})) THEN Ok(None)
    ELSE Bind(ParseContentClause(FindFirstByType(node.children, {"content_clause"})),
              LAMBDA content : Ok(Some(content)))

\* the three parts of a condition node, decoded in the code's order
ParseCondition(condition) ==
    IF IsNone(condition) THEN Raise("No condition found in where clause")
    ELSE Bind(ParseString(FindFirstByType(condition.children, {"conditions_left"})),
         LAMBDA field :
         Bind(ParseString(FindFirstByType(condition.children, {"operator"})),
         LAMBDA operator :
         Bind(ParseString(FindFirstByType(condition.children, {"string"})),
         LAMBDA value : Ok(WhereClause(field, operator, value)))))

ParseWhereClause(node) == ParseCondition(FindFirstByType(node.children, {"condition"}))

----------------------------------------------------------------------------
(* Tree walker / command builder: regions *)

\* MarkerType(text) / RelativePositionType(text): the enumeration's member,
\* or ValueError for a text that is no member
MarkerTypeOf(text) ==
    IF text \in MarkerTypes THEN Ok(text)
    ELSE Raise("'" \o text \o "' is not a valid MarkerType")
RelativePositionTypeOf(text) ==
    IF text \in RelativePositionTypes THEN Ok(text)
    ELSE Raise("'" \o text \o "' is not a valid RelativePositionType")

\* node.named_children[0] / node.children[0] / node.children[1]
FirstNamedChild(node) ==
    IF NamedChildren(node) = <<>> THEN Raise(IndexOutOfRange)
    ELSE Ok(NamedChildren(node)[1])
FirstChild(node) ==
    IF node.children = <<>> THEN Raise(IndexOutOfRange) ELSE Ok(node.children[1])
SecondChild(node) ==
    IF IsNone(node) THEN Raise(NoneHasNoChildren)
    ELSE IF Len(node.children) < 2 THEN Raise(IndexOutOfRange)
    ELSE Ok(node.children[2])

\* RelativePositionType(node.child(0).type.casefold()); child(0) of a node
\* without children is None
QualifierOf(node) ==
    IF node.children = <<>> THEN Raise(NoneHasNoType)
    ELSE RelativePositionTypeOf(Casefold(node.children[1].type))

\* parse_marker below its first statement: node is the linemarker or the
\* identifier marker itself
ParseMarkerNode(node) ==
    Bind(FirstChild(node),
    LAMBDA first :
    Bind(ParseString(FindFirstByType(NamedChildren(node), {"string"})),
    LAMBDA value :
    Bind(ParseOffsetClause(FindFirstByType(NamedChildren(node), {"offset_clause"})),
    LAMBDA offset :
    Bind(MarkerTypeOf(Casefold(first.type)),
    LAMBDA mtype : Ok(Marker(mtype, value, offset))))))

ParseMarker(node) ==
    IF Casefold(node.type) = "marker"
    THEN Bind(FirstNamedChild(node), LAMBDA inner : ParseMarkerNode(inner))
    ELSE ParseMarkerNode(node)

\* the node below a wrapper, with the qualifier recorded on the way
Unwrapped(n, q) == [node |-> n, qualifier |-> q]

\* the first match statement of parse_region
UnwrapRegion(node) ==
    CASE Casefold(node.type) = "marker_or_segment" ->
           Bind(FirstNamedChild(node), LAMBDA c : Ok(Unwrapped(c, None)))
      [] Casefold(node.type) = "region_field" ->
           Bind(FirstChild(node),
                LAMBDA c : IF Casefold(c.type) = "marker_or_segment"
                           THEN Bind(FirstNamedChild(c), LAMBDA d : Ok(Unwrapped(d, None)))
                           ELSE Ok(Unwrapped(c, None)))
      [] Casefold(node.type) = "relpos_bai" ->
           Bind(FirstNamedChild(node),
                LAMBDA c : Bind(QualifierOf(c),
                LAMBDA q : Bind(FirstNamedChild(c),
                LAMBDA d : Ok(Unwrapped(d, Some(q))))))
      [] Casefold(node.type) = "relpos_beforeafter" ->
           Bind(QualifierOf(node),
                LAMBDA q : Bind(FirstNamedChild(node),
                LAMBDA d : Ok(Unwrapped(d, Some(q)))))
      [] Casefold(node.type) = "relpos_at" ->
           Bind(FirstNamedChild(node), LAMBDA c : Ok(Unwrapped(c, None)))
      [] OTHER -> Ok(Unwrapped(node, None))

\* the last statement of parse_region: a recorded qualifier re-wraps the
\* result, reading its type, value and offset attributes
Requalify(qualifier, res) ==
    IF qualifier = None THEN Ok(res)
    ELSE IF res.cls \in {"Marker", "RelativeMarker"}
         THEN Ok(RelativeMarker(qualifier[1], res.type, res.value, res.offset))
    ELSE IF res.cls = "Segment" THEN Raise("'Segment' object has no attribute 'type'")
    ELSE Raise("'BodyOrWhole' object has no attribute 'type'")

RECURSIVE ParseRegion(_), ParseSegment(_), ParseLeaf(_)
\* the second match statement of parse_region
ParseLeaf(node) ==
    CASE Casefold(node.type) \in {"marker", "linemarker"} -> ParseMarker(node)
      [] Casefold(node.type) = "segment" -> ParseSegment(node)
      [] Casefold(node.type) \in BodyOrWholeValues -> Ok(BodyOrWhole(Casefold(node.type)))
      [] OTHER -> Raise("[parse_region] Unexpected node type: " \o Casefold(node.type))

ParseRegion(node) ==
    IF IsNone(node) THEN Raise(NoneHasNoType)
    ELSE Bind(UnwrapRegion(node),
              LAMBDA u : Bind(ParseLeaf(u.node),
              LAMBDA res : Requalify(u.qualifier, res)))

ParseSegment(node) ==
    Bind(SecondChild(FindFirstByType(NamedChildren(node), {"relpos_segment_start"})),
    LAMBDA relpos_start :
    Bind(SecondChild(FindFirstByType(NamedChildren(node), {"relpos_segment_end"})),
    LAMBDA relpos_end :
    Bind(ParseRegion(relpos_start),
    LAMBDA start :
    Bind(ParseRegion(relpos_end),
    LAMBDA end : Ok(Segment(start, end))))))

----------------------------------------------------------------------------
(* Tree walker / command builder: targets, actions, commands *)

RegionTypes == {"marker_or_segment", "region_field"}

ParseDeleteClause(node) ==
    Bind(ParseRegion(FindFirstByType(NamedChildren(node), RegionTypes)),
         LAMBDA region : Ok(DeleteClause(region)))

ParseReplaceClause(node) ==
    Bind(ParseRegion(FindFirstByType(NamedChildren(node), RegionTypes)),
         LAMBDA region : Ok(ReplaceClause(region)))

ParseInsertClause(node) ==
    IF IsNone(node) THEN Raise(NoneHasNoChildren)
    ELSE Bind(ParseRegion(FindFirstByType(node.children, {"relpos_bai"})),
              LAMBDA relative_marker : Ok(InsertClause(relative_marker)))

\* a MoveClause built without the destination's relative indentation: a
\* deviation from parse_move_clause the move property has to tell from the code
BuildMoveClauseWithoutIndent(source, insert_clause, rel_indent) ==
    MoveClause(source, insert_clause.insert_position, None, None)

\* the MoveClause parse_move_clause constructs: to_other_file keeps its default
BuildMoveClause(source, insert_clause, rel_indent) ==
    MoveClause(source, insert_clause.insert_position, None, rel_indent)

\* parse_move_clause from its third statement on
ParseMoveDestination(source, destination) ==
    IF IsNone(destination) THEN Raise(NoneHasNoNamedChildren)
    ELSE Bind(ParseInsertClause(
                  FindFirstByType(NamedChildren(destination), {"insert_clause"})),
         LAMBDA insert_clause :
         Bind(ParseRelativeIndentation(
                  FindFirstByType(NamedChildren(destination), {"relative_indentation"})),
         LAMBDA rel_indent : Ok(BuildMoveClause(source, insert_clause, rel_indent))))

ParseMoveClause(node) ==
    Bind(ParseRegion(FindFirstByType(NamedChildren(node), RegionTypes)),
         LAMBDA source :
             ParseMoveDestination(source,
                 FindFirstByType(NamedChildren(node), {"update_move_clause_destination"})))

ActionTypes ==
    {"update_delete_region_clause", "update_delete_mos_clause",
     "update_move_region_clause", "update_move_mos_clause",
     "insert_clause", "replace_mos_clause", "replace_region_clause"}

\* the match statement of parse_update_action
ParseActionNode(action_node) ==
    IF IsNone(action_node) THEN Raise("No valid action found in update command")
    ELSE CASE action_node.type \in {"update_delete_mos_clause",
                                    "update_delete_region_clause"} ->
                  ParseDeleteClause(action_node)
           [] action_node.type \in {"update_move_mos_clause",
                                    "update_move_region_clause"} ->
                  ParseMoveClause(action_node)
           [] action_node.type = "insert_clause" -> ParseInsertClause(action_node)
           [] action_node.type \in {"replace_mos_clause", "replace_region_clause"} ->
                  ParseReplaceClause(action_node)
           [] OTHER -> Raise("[parse_update_action] Invalid: " \o action_node.type)

ParseUpdateAction(node) ==
    ParseActionNode(FindFirstByType(NamedChildren(node), ActionTypes))

ParseIdentifierFromFile(node) ==
    Bind(FirstChild(node),
    LAMBDA first :
        IF IsNone(FindFirstByType(NamedChildren(node), {"singlefile_clause"}))
           \/ IsNone(FindFirstByType(NamedChildren(node), {"where_clause"}))
        THEN Raise("Invalid identifier_from_file clause")
        ELSE Bind(ParseSinglefileClause(
                      FindFirstByType(NamedChildren(node), {"singlefile_clause"})),
             LAMBDA file :
             Bind(ParseWhereClause(FindFirstByType(NamedChildren(node), {"where_clause"})),
             LAMBDA where :
             Bind(ParseOffsetClause(FindFirstByType(NamedChildren(node), {"offset_clause"})),
             LAMBDA offset :
                 Ok(IdentifierFromFile(first.type, file.file_path, where, offset))))))

\* the match statement of parse_update_target
ParseTargetNode(target_node) ==
    IF IsNone(target_node) THEN Raise("No valid target found in update command")
    ELSE CASE Casefold(target_node.type) = "singlefile_clause" ->
                  ParseSinglefileClause(target_node)
           [] Casefold(target_node.type) = "identifier_from_file" ->
                  ParseIdentifierFromFile(target_node)
           [] OTHER -> Raise("[parse_update_target] Invalid target: " \o Casefold(target_node.type))

ParseUpdateTarget(node) ==
    ParseTargetNode(FindFirstByType(NamedChildren(node),
                                    {"singlefile_clause", "identifier_from_file"}))

ParseUpdateCommand(node) ==
    Bind(ParseUpdateTarget(node),
    LAMBDA target :
    Bind(ParseUpdateAction(node),
    LAMBDA action :
    Bind(ParseUpdateContent(node),
    LAMBDA content : Ok(UpdateCommand(target, action, content)))))

ParseCreateCommand(node) ==
    Bind(ParseSinglefileClause(FindFirstByType(node.children, {"singlefile_clause"})),
    LAMBDA file :
    Bind(ParseContentClause(FindFirstByType(node.children, {"content_clause"})),
    LAMBDA content : Ok(CreateCommand(file.file_path, content))))

ParseRmFileCommand(node) ==
    Bind(ParseSinglefileClause(FindFirstByType(node.children, {"singlefile_clause"})),
         LAMBDA file : Ok(RmFileCommand(file.file_path)))

ParseMvFileCommand(node) ==
    Bind(ParseSinglefileClause(FindFirstByType(node.children, {"singlefile_clause"})),
    LAMBDA file :
    Bind(ParseToValueClause(FindFirstByType(node.children, {"to_value_clause"})),
    LAMBDA target_path : Ok(MvFileCommand(file.file_path, target_path))))

ParseCommand(node) ==
    CASE node.type = "create_command" -> ParseCreateCommand(node)
      [] node.type = "rm_file_command" -> ParseRmFileCommand(node)
      [] node.type = "mv_file_command" -> ParseMvFileCommand(node)
      [] node.type = "update_command" -> ParseUpdateCommand(node)
      [] OTHER -> Raise("Unexpected command type: " \o node.type)

----------------------------------------------------------------------------
(* Diagnostic collector *)

\* a message text: a format and the values substituted into it
Message(fmt, args) == [fmt |-> fmt, args |-> args]

Whitespace == {SP, NL}

\* parent_type is <<>> for the root (no parent), <<type>> otherwise
GenerateSuggestion(parent_type) ==
    IF parent_type = None
    THEN Message("Please check the syntax near the error.", <<>>)
    ELSE IF parent_type[1] = "content_clause"
    THEN Message("Ensure the content block is properly enclosed with matching quotes (''' or \"\").",
                 <<>>)
    ELSE IF parent_type[1] = "update_command"
    THEN Message("An action clause ('REPLACE', 'INSERT', 'DELETE') is expected in the 'UPDATE' command.",
                 <<>>)
    ELSE IF parent_type[1] = "create_command"
    THEN Message("The 'CREATE' command may be missing 'WITH CONTENT' or has a syntax issue.",
                 <<>>)
    ELSE Message("Please check the syntax near the error (parent node: {})", parent_type)

\* the ParseError built for an ERROR node
ErrorOf(node, parent_type, ordinal) ==
    LET line == node.row + 1
        column == node.col + 1
    IN  ParseError(ordinal,
                   Message("Syntax error near '{}' at line {}, column {}.",
                           <<Strip(node.text, Whitespace), line, column>>),
                   line, column, GenerateSuggestion(parent_type))

RECURSIVE CollectParseErrors(_, _, _), CollectAll(_, _, _)
\* a collector that does not look below an ERROR node: a deviation from
\* _collect_parse_errors the collector property has to tell from the code
CollectParseErrorsShallow(node, parent_type, ordinal) ==
    IF node.has_error
    THEN IF node.type = "ERROR" THEN <<ErrorOf(node, parent_type, ordinal)>>
         ELSE CollectAll(node.children, Some(node.type), ordinal)
    ELSE <<>>
CollectParseErrors(node, parent_type, ordinal) ==
    IF node.has_error
    THEN (IF node.type = "ERROR" THEN <<ErrorOf(node, parent_type, ordinal)>> ELSE <<>>)
         \o CollectAll(node.children, Some(node.type), ordinal)
    ELSE <<>>
CollectAll(nodes, parent_type, ordinal) ==
    IF nodes = <<>> THEN <<>>
    ELSE CollectParseErrors(Head(nodes), parent_type, ordinal)
         \o CollectAll(Tail(nodes), parent_type, ordinal)

----------------------------------------------------------------------------
(* Parser facade: parse_script *)

\* the node types of the vocabulary whose casefolded name ends in "_command"
CommandTypeNames ==
    {"create_command", "rm_file_command", "mv_file_command", "update_command",
     "select_command"}
IsCommandType(type) == Casefold(type) \in CommandTypeNames

InitialOrdinal == 1

\* an ordinal that is never advanced: a deviation from the loop of parse_script
\* the ordinal property has to tell from the code
NextOrdinalUnchanged(ordinal) == ordinal

\* command_ordinal += 1
NextOrdinal(ordinal) == ordinal + 1

\* two deviations from the except clause the result properties have to tell
\* from the code: one hands back the commands built so far, one reports the
\* failure at line 1, column 1
ExceptResultKeepsBuilt(built, ordinal, msg) ==
    << built, <<ParseError(ordinal, Message(msg, <<>>), 0, 0,
                           Message("Revise your CEDARScript syntax.", <<>>))>> >>
ExceptResultAtLineOne(built, ordinal, msg) ==
    << <<>>, <<ParseError(ordinal, Message(msg, <<>>), 1, 1,
                          Message("Revise your CEDARScript syntax.", <<>>))>> >>

\* what the except clause returns
ExceptResult(built, ordinal, msg) ==
    << <<>>, <<ParseError(ordinal, Message(msg, <<>>), 0, 0,
                          Message("Revise your CEDARScript syntax.", <<>>))>> >>

\* what the error gate returns when the collector found errors
ErrorsResult(errors) == << <<>>, errors >>

\* what the end of the loop returns
CommandsResult(built) == << built, <<>> >>

\* the ordinal handed to the collector
CollectorOrdinal(ordinal) == ordinal

----------------------------------------------------------------------------
(* The shapes of tree the builder reads, one constructor per node type *)

Quoted(q, content) == <<q>> \o content \o <<q>>

\* a string node over a token: its named child tells the quoting style
StringNode(style, token) == Node("string", TRUE, <<Leaf(style, TRUE, token)>>)
PathNode(name) == StringNode("single_quoted_string", Quoted(DQ, <<name>>))

FileNode(name) == Node("singlefile_clause", TRUE, <<Tok("FILE"), PathNode(name)>>)
ToValueNode(name) == Node("to_value_clause", TRUE, <<Tok("TO"), PathNode(name)>>)

DigitChar(n) ==
    CASE n = 0 -> "0" [] n = 1 -> "1" [] n = 2 -> "2" [] n = 3 -> "3" [] n = 4 -> "4"
      [] n = 5 -> "5" [] n = 6 -> "6" [] n = 7 -> "7" [] n = 8 -> "8" [] n = 9 -> "9"
NumberNode(n) == Leaf("number", TRUE, <<DigitChar(n)>>)

\* opt is <<>> or <<n>>: the optional clause as a list of zero or one nodes
OffsetNodes(opt) ==
    IF opt = None THEN <<>>
    ELSE <<Node("offset_clause", TRUE, <<Tok("OFFSET"), NumberNode(opt[1])>>)>>
RelIndentNodes(opt) ==
    IF opt = None THEN <<>>
    ELSE <<Node("relative_indentation", TRUE,
                <<Tok("RELATIVE INDENTATION"), NumberNode(opt[1])>>)>>

\* kind is the keyword token LINE, VARIABLE, FUNCTION or CLASS
MarkerNode(kind, name, offset) ==
    Node("marker", TRUE,
         <<Node(IF kind = "LINE" THEN "linemarker" ELSE "identifiermarker", TRUE,
                <<Tok(kind), PathNode(name)>> \o OffsetNodes(offset))>>)

RelposBeforeAfterNode(q, marker) == Node("relpos_beforeafter", TRUE, <<Tok(q), marker>>)
RelposInsideNode(marker) == Node("relpos_inside", TRUE, <<Tok("INSIDE"), marker>>)
RelposAtNode(marker) == Node("relpos_at", TRUE, <<Tok("AT"), marker>>)
RelposBaiNode(q, marker) ==
    Node("relpos_bai", TRUE,
         <<IF q = "INSIDE" THEN RelposInsideNode(marker)
           ELSE RelposBeforeAfterNode(q, marker)>>)

SegmentNode(start, end) ==
    Node("segment", TRUE,
         <<Tok("SEGMENT"),
           Node("relpos_segment_start", TRUE, <<Tok("STARTING"), start>>),
           Node("relpos_segment_end", TRUE, <<Tok("ENDING"), end>>)>>)

MarkerOrSegmentNode(inner) == Node("marker_or_segment", TRUE, <<inner>>)
RegionFieldNode(inner) == Node("region_field", TRUE, <<inner>>)

InsertNode(q, marker) == Node("insert_clause", TRUE, <<Tok("INSERT"), RelposBaiNode(q, marker)>>)
DeleteNode(region) ==
    Node(IF region.type = "region_field" THEN "update_delete_region_clause"
         ELSE "update_delete_mos_clause", TRUE, <<Tok("DELETE"), region>>)
ReplaceNode(region) ==
    Node(IF region.type = "region_field" THEN "replace_region_clause"
         ELSE "replace_mos_clause", TRUE, <<Tok("REPLACE"), region>>)
\* dest is the list of the destination's children
MoveNode(region, dest) ==
    Node(IF region.type = "region_field" THEN "update_move_region_clause"
         ELSE "update_move_mos_clause", TRUE,
         <<Tok("MOVE"), region, Node("update_move_clause_destination", TRUE, dest)>>)

IndentLineNode(n, text) ==
    Node("relative_indent_line", TRUE,
         <<Leaf("relative_indent_prefix", TRUE, <<"@", DigitChar(n), ":">>),
           Leaf("match_any_char", TRUE, text)>>)
IndentBlockNode(lines) == Node("relative_indent_block", TRUE, lines)
ContentNode(inner) == Node("content_clause", TRUE, <<Tok("WITH CONTENT"), inner>>)

WhereNode(name) ==
    Node("where_clause", TRUE,
         <<Tok("WHERE"),
           Node("condition", TRUE,
                <<Leaf("conditions_left", TRUE, <<"n", "a", "m", "e">>),
                  Leaf("operator", TRUE, <<"=">>), PathNode(name)>>)>>)
IdentifierNode(kind, file, name, offset) ==
    Node("identifier_from_file", TRUE,
         <<Tok(kind), Tok("FROM"), FileNode(file), WhereNode(name)>> \o OffsetNodes(offset))

CreateNode(file, content) ==
    Node("create_command", TRUE, <<Tok("CREATE"), FileNode(file), content>>)
RmFileNode(file) == Node("rm_file_command", TRUE, <<Tok("RM"), FileNode(file)>>)
MvFileNode(file, to) ==
    Node("mv_file_command", TRUE, <<Tok("MV"), FileNode(file), ToValueNode(to)>>)
\* rest is the list of the command's children after the keyword
UpdateNode(rest) == Node("update_command", TRUE, <<Tok("UPDATE")>> \o rest)
CommentNode == Leaf("comment", TRUE, <<"-", "-", SP, "c">>)
ErrorNode(children) ==
    [Node("ERROR", TRUE, children) EXCEPT !.text = <<SP, "x", SP>>]

----------------------------------------------------------------------------
(* The scripts parse_script is run on *)

LineOne == MarkerNode("LINE", "1", None)
FuncF == MarkerNode("FUNCTION", "f", Some(2))
TextContent == ContentNode(StringNode("raw_string", Quoted(SQ, <<"x">>)))
BlockContent ==
    ContentNode(IndentBlockNode(<<IndentLineNode(0, <<"x">>), IndentLineNode(1, <<"y">>)>>))

\* top-level nodes the builder turns into a command
GoodCommandNodes ==
    { CreateNode("a", TextContent),
      MvFileNode("a", "b"),
      UpdateNode(<<IdentifierNode("FUNCTION", "a", "f", Some(1)),
                   MoveNode(MarkerOrSegmentNode(LineOne),
                            <<InsertNode("AFTER", FuncF)>> \o RelIndentNodes(Some(1)))>>),
      UpdateNode(<<FileNode("a"),
                   ReplaceNode(MarkerOrSegmentNode(
                       SegmentNode(RelposBeforeAfterNode("BEFORE", LineOne),
                                   RelposBeforeAfterNode("AFTER", FuncF)))),
                   TextContent>>) }

\* a command whose content is a relative-indent block
BlockCommandNodes == { CreateNode("a", BlockContent) }

\* command nodes without a required part, or of a type parse_command does not know
BadCommandNodes ==
    { UpdateNode(<<FileNode("a")>>),
      Node("select_command", TRUE, <<Tok("SELECT")>>) }

\* nodes that are, or hold, an ERROR node
ErrorNodes ==
    { ErrorNode(<<>>),
      UpdateNode(<<FileNode("a"), ErrorNode(<<ErrorNode(<<>>)>>)>>) }

\* a command the engine recovered by inserting a missing token: no ERROR node
MissingNodes ==
    { Node("rm_file_command", TRUE, <<Tok("RM"), FileNode("a"), Missing(";", FALSE)>>) }

TopNodes ==
    {CommentNode} \cup GoodCommandNodes \cup BlockCommandNodes \cup BadCommandNodes
        \cup ErrorNodes \cup MissingNodes

\* the top-level nodes laid out one per row
RECURSIVE PlaceRows(_, _)
PlaceRows(nodes, row) ==
    IF nodes = <<>> THEN <<>>
    ELSE <<PlaceAt(Head(nodes), row, 0)>> \o PlaceRows(Tail(nodes), row + 1)

RootOf(top) == Node("source_file", TRUE, PlaceRows(top, 0))

TopLists == UNION {[1..n -> TopNodes] : n \in 0..MaxTop}

\* fails: building the tree raises (the text cannot be encoded, the engine fails)
Scripts ==
    {[fails |-> FALSE, root |-> RootOf(top)] : top \in TopLists}
        \cup {[fails |-> TRUE, root |-> NoneNode]}

TreeFailure == "tree construction failed"

----------------------------------------------------------------------------
(* parse_script, step by step *)

Init ==
    /\ script \in Scripts
    /\ pc = "start"
    /\ idx = 0
    /\ command_ordinal = InitialOrdinal
    /\ commands = <<>>
    /\ raised = None
    /\ result = None
    /\ fn_in = None
    /\ fn_out = None

\* tree = self.parser.parse(...) returns
TreeBuilt ==
    /\ pc = "start"
    /\ ~script.fails
    /\ pc' = "collect"
    /\ UNCHANGED <<script, idx, command_ordinal, commands, raised, result>>
    /\ UNCHANGED fnVars

\* tree = self.parser.parse(...) raises: the except clause returns
TreeRaises ==
    /\ pc = "start"
    /\ script.fails
    /\ raised' = Some([step |-> "tree", at |-> 0, msg |-> TreeFailure])
    /\ result' = Some(ExceptResult(commands, command_ordinal, TreeFailure))
    /\ pc' = "done"
    /\ UNCHANGED <<script, idx, command_ordinal, commands>>
    /\ UNCHANGED fnVars

\* the collector found errors: they are returned without commands
ErrorsFound ==
    /\ pc = "collect"
    /\ LET errors == CollectParseErrors(script.root, None, CollectorOrdinal(command_ordinal))
       IN  /\ errors # <<>>
           /\ result' = Some(ErrorsResult(errors))
    /\ pc' = "done"
    /\ UNCHANGED <<script, idx, command_ordinal, commands, raised>>
    /\ UNCHANGED fnVars

\* the collector found nothing: the loop over root_node.children starts
NoErrors ==
    /\ pc = "collect"
    /\ CollectParseErrors(script.root, None, CollectorOrdinal(command_ordinal)) = <<>>
    /\ pc' = "loop"
    /\ idx' = 1
    /\ commands' = <<>>
    /\ UNCHANGED <<script, command_ordinal, raised, result>>
    /\ UNCHANGED fnVars

\* a child that is no command (a comment is printed): continue
SkipNode ==
    /\ pc = "loop"
    /\ idx <= Len(script.root.children)
    /\ ~IsCommandType(script.root.children[idx].type)
    /\ idx' = idx + 1
    /\ UNCHANGED <<script, pc, command_ordinal, commands, raised, result>>
    /\ UNCHANGED fnVars

\* a command node whose command is built and appended
BuildCommand ==
    /\ pc = "loop"
    /\ idx <= Len(script.root.children)
    /\ IsCommandType(script.root.children[idx].type)
    /\ LET r == ParseCommand(script.root.children[idx])
       IN  /\ r.ok
           /\ commands' = Append(commands, r.val)
    /\ command_ordinal' = NextOrdinal(command_ordinal)
    /\ idx' = idx + 1
    /\ UNCHANGED <<script, pc, raised, result>>
    /\ UNCHANGED fnVars

\* a command node whose builder raises: the except clause returns
BuildRaises ==
    /\ pc = "loop"
    /\ idx <= Len(script.root.children)
    /\ IsCommandType(script.root.children[idx].type)
    /\ LET r == ParseCommand(script.root.children[idx])
       IN  /\ ~r.ok
           /\ raised' = Some([step |-> "build", at |-> idx, msg |-> r.msg])
           /\ result' = Some(ExceptResult(commands, command_ordinal, r.msg))
    /\ pc' = "done"
    /\ UNCHANGED <<script, idx, command_ordinal, commands>>
    /\ UNCHANGED fnVars

\* the loop is over: the commands are returned
ReturnCommands ==
    /\ pc = "loop"
    /\ idx > Len(script.root.children)
    /\ result' = Some(CommandsResult(commands))
    /\ pc' = "done"
    /\ UNCHANGED <<script, idx, command_ordinal, commands, raised>>
    /\ UNCHANGED fnVars

Next ==
    \/ TreeBuilt
    \/ TreeRaises
    \/ ErrorsFound
    \/ NoErrors
    \/ SkipNode
    \/ BuildCommand
    \/ BuildRaises
    \/ ReturnCommands

Spec == Init /\ [][Next]_vars

----------------------------------------------------------------------------
(* The pure functions, each applied to inputs drawn by its Init *)

\* parse_script is not running
MainIdle ==
    /\ script = [fails |-> TRUE, root |-> NoneNode]
    /\ pc = "idle"
    /\ idx = 0
    /\ command_ordinal = InitialOrdinal
    /\ commands = <<>>
    /\ raised = None
    /\ result = None

(* files_to_change *)

\* a str object, tagged with its class as the clause objects are
StrObject(text) == [cls |-> "str", text |-> text]

FilePaths == {StrObject(<<"a">>), StrObject(<<"b">>), StrObject(<<"c">>)}
SomeWhere == WhereClause(<<"n", "a", "m", "e">>, <<"=">>, <<"f">>)
SomePosition == RelativeMarker("after", "line", <<"1">>, None)
SomeRegion == Marker("function", <<"f">>, None)

TargetValues ==
    {SingleFileClause(p) : p \in FilePaths}
        \cup {IdentifierFromFile("FUNCTION", p, SomeWhere, None) : p \in FilePaths}
MoveValues ==
    {MoveClause(SomeRegion, SomePosition, other, r) :
        other \in {None} \cup {Some(SingleFileClause(p)) : p \in FilePaths},
        r \in {None, Some(1)}}
ActionValues ==
    {DeleteClause(BodyOrWhole("whole")), ReplaceClause(SomeRegion),
     InsertClause(SomePosition)} \cup MoveValues
CommandValues ==
    {CreateCommand(p, StrObject(<<"x">>)) : p \in FilePaths}
        \cup {RmFileCommand(p) : p \in FilePaths}
        \cup {MvFileCommand(p, t) : p \in FilePaths, t \in FilePaths}
        \cup {UpdateCommand(t, a, None) : t \in TargetValues, a \in ActionValues}

InitFiles ==
    /\ MainIdle
    /\ fn_in \in {[fn |-> "files_to_change", cmd |-> c] : c \in CommandValues}
    /\ fn_out = None

CallFilesToChange ==
    /\ fn_in.fn = "files_to_change"
    /\ fn_out = None
    /\ fn_out' = Some(FilesToChange(fn_in.cmd))
    /\ UNCHANGED <<fn_in>>
    /\ UNCHANGED mainVars

SpecFiles == InitFiles /\ [][CallFilesToChange]_vars

(* parse_string on quoted tokens *)

Alphabet == {"a", SQ, DQ, BS}
Contents == UNION {[1..n -> Alphabet] : n \in 0..MaxContent}

\* c is the inside of a token delimited by q in the style with escapes: a
\* backslash takes the next character with it, and q occurs only escaped
RECURSIVE WellEscaped(_, _)
WellEscaped(c, q) ==
    IF c = <<>> THEN TRUE
    ELSE IF Head(c) = BS THEN Len(c) >= 2 /\ WellEscaped(Tail(Tail(c)), q)
    ELSE Head(c) # q /\ WellEscaped(Tail(c), q)

\* a raw token has no escapes: its delimiter does not occur inside
RawContent(c, q) == \A i \in 1..Len(c) : c[i] # q

StringInputs ==
    {i \in [fn : {"parse_string"}, style : {"single_quoted_string", "raw_string"},
            quote : Quotes, content : Contents] :
        IF i.style = "raw_string" THEN RawContent(i.content, i.quote)
        ELSE WellEscaped(i.content, i.quote)}

InitString ==
    /\ MainIdle
    /\ fn_in \in StringInputs
    /\ fn_out = None

CallParseString ==
    /\ fn_in.fn = "parse_string"
    /\ fn_out = None
    /\ fn_out' = Some(ParseString(StringNode(fn_in.style, Quoted(fn_in.quote, fn_in.content))))
    /\ UNCHANGED <<fn_in>>
    /\ UNCHANGED mainVars

SpecString == InitString /\ [][CallParseString]_vars

(* parse_relative_indent_block *)

LineTexts == {<<"x">>, <<"p", "a", "s", "s">>}
LineSpecs ==
    [prefix : {None} \cup {Some(n) : n \in 0..MaxIndent},
     content : {None} \cup {Some(t) : t \in LineTexts}]
BlockSpecs == UNION {[1..n -> LineSpecs] : n \in 0..MaxLines}

LineNodeOf(l) ==
    Node("relative_indent_line", TRUE,
         (IF l.prefix = None THEN <<>>
          ELSE <<Leaf("relative_indent_prefix", TRUE, <<"@", DigitChar(l.prefix[1]), ":">>)>>)
         \o (IF l.content = None THEN <<>>
             ELSE <<Leaf("match_any_char", TRUE, l.content[1])>>))

RECURSIVE LineNodesOf(_)
LineNodesOf(ls) ==
    IF ls = <<>> THEN <<>> ELSE <<LineNodeOf(Head(ls))>> \o LineNodesOf(Tail(ls))

InitIndent ==
    /\ MainIdle
    /\ fn_in \in {[fn |-> "parse_relative_indent_block", lines |-> b] : b \in BlockSpecs}
    /\ fn_out = None

CallParseRelativeIndentBlock ==
    /\ fn_in.fn = "parse_relative_indent_block"
    /\ fn_out = None
    /\ fn_out' = Some(ParseRelativeIndentBlock(IndentBlockNode(LineNodesOf(fn_in.lines))))
    /\ UNCHANGED <<fn_in>>
    /\ UNCHANGED mainVars

SpecIndent == InitIndent /\ [][CallParseRelativeIndentBlock]_vars

(* parse_move_clause on move action nodes *)

MarkerKinds == {"LINE", "VARIABLE", "FUNCTION", "CLASS"}
MarkerNames == {"f", "1"}
Offsets == {None, Some(0), Some(1)}
Qualifiers == {"BEFORE", "AFTER", "INSIDE"}
SourceKinds == {"marker", "segment", "body", "whole"}
Indentations == {None} \cup {Some(n) : n \in 0..MaxIndent}

\* the source region node of a move action
SourceNodeOf(kind) ==
    CASE kind = "marker" -> MarkerOrSegmentNode(LineOne)
      [] kind = "segment" ->
            MarkerOrSegmentNode(SegmentNode(RelposBeforeAfterNode("BEFORE", LineOne),
                                            RelposBeforeAfterNode("AFTER", FuncF)))
      [] kind = "body" -> RegionFieldNode(Tok("BODY"))
      [] kind = "whole" -> RegionFieldNode(Tok("WHOLE"))

MoveInputs ==
    [fn : {"parse_move_clause"}, source : SourceKinds, qualifier : Qualifiers,
     kind : MarkerKinds, name : MarkerNames, offset : Offsets, indent : Indentations]

\* the move action node the input describes
MoveNodeOf(i) ==
    MoveNode(SourceNodeOf(i.source),
             <<InsertNode(i.qualifier, MarkerNode(i.kind, i.name, i.offset))>>
                 \o RelIndentNodes(i.indent))

InitMove ==
    /\ MainIdle
    /\ fn_in \in MoveInputs
    /\ fn_out = None

CallParseMoveClause ==
    /\ fn_in.fn = "parse_move_clause"
    /\ fn_out = None
    /\ fn_out' = Some(ParseMoveClause(MoveNodeOf(fn_in)))
    /\ UNCHANGED <<fn_in>>
    /\ UNCHANGED mainVars

SpecMove == InitMove /\ [][CallParseMoveClause]_vars

(* parse_command on update commands that lack a required part *)

\* the required part left out of the command; "none" is the complete command
MissingParts ==
    {"none", "target", "action", "identifier_file", "identifier_where",
     "delete_region", "replace_region", "move_region", "move_destination", "move_insert"}
ClauseForms == {"mos", "region"}

IncompleteInputs ==
    [fn : {"parse_command"}, missing : MissingParts, file : {"a", "b"},
     kind : MarkerKinds, form : ClauseForms]

\* the region node of an action clause in either form
RegionNodeOf(i) ==
    IF i.form = "mos" THEN MarkerOrSegmentNode(MarkerNode(i.kind, "f", None))
    ELSE RegionFieldNode(Tok("BODY"))

\* an action clause of the given keyword holding the given children
ClauseNode(keyword, form, children) ==
    Node((CASE keyword = "DELETE" -> "update_delete_"
            [] keyword = "MOVE" -> "update_move_"
            [] keyword = "REPLACE" -> "replace_")
         \o form \o "_clause", TRUE, <<Tok(keyword)>> \o children)

DestinationNode(children) == Node("update_move_clause_destination", TRUE, children)

\* the children of the update command, the missing part left out
IncompleteChildren(i) ==
    CASE i.missing = "none" -> <<FileNode(i.file), ClauseNode("DELETE", i.form, <<RegionNodeOf(i)>>)>>
      [] i.missing = "target" -> <<ClauseNode("DELETE", i.form, <<RegionNodeOf(i)>>)>>
      [] i.missing = "action" -> <<FileNode(i.file)>>
      [] i.missing = "identifier_file" ->
            <<Node("identifier_from_file", TRUE, <<Tok("FUNCTION"), Tok("FROM"), WhereNode("f")>>),
              ClauseNode("DELETE", i.form, <<RegionNodeOf(i)>>)>>
      [] i.missing = "identifier_where" ->
            <<Node("identifier_from_file", TRUE,
                   <<Tok("FUNCTION"), Tok("FROM"), FileNode(i.file)>>),
              ClauseNode("DELETE", i.form, <<RegionNodeOf(i)>>)>>
      [] i.missing = "delete_region" -> <<FileNode(i.file), ClauseNode("DELETE", i.form, <<>>)>>
      [] i.missing = "replace_region" ->
            <<FileNode(i.file), ClauseNode("REPLACE", i.form, <<>>), TextContent>>
      [] i.missing = "move_region" ->
            <<FileNode(i.file),
              ClauseNode("MOVE", i.form,
                         <<DestinationNode(<<InsertNode("AFTER", MarkerNode(i.kind, "f", None))>>)>>)>>
      [] i.missing = "move_destination" ->
            <<FileNode(i.file), ClauseNode("MOVE", i.form, <<RegionNodeOf(i)>>)>>
      [] i.missing = "move_insert" ->
            <<FileNode(i.file),
              ClauseNode("MOVE", i.form, <<RegionNodeOf(i), DestinationNode(RelIndentNodes(Some(1)))>>)>>

InitIncomplete ==
    /\ MainIdle
    /\ fn_in \in IncompleteInputs
    /\ fn_out = None

CallParseCommand ==
    /\ fn_in.fn = "parse_command"
    /\ fn_out = None
    /\ fn_out' = Some(ParseCommand(UpdateNode(IncompleteChildren(fn_in))))
    /\ UNCHANGED <<fn_in>>
    /\ UNCHANGED mainVars

SpecIncomplete == InitIncomplete /\ [][CallParseCommand]_vars

(* parse_region on relative-position wrappers around a marker *)

\* the wrappers and the keyword each one can carry
WrapperQualifiers ==
    {<<"relpos_bai", "BEFORE">>, <<"relpos_bai", "AFTER">>, <<"relpos_bai", "INSIDE">>,
     <<"relpos_beforeafter", "BEFORE">>, <<"relpos_beforeafter", "AFTER">>,
     <<"relpos_at", "AT">>}

\* context: the wrapper is parsed on its own, or as both ends of a segment
RegionInputs ==
    {i \in [fn : {"parse_region"}, context : {"region", "segment"},
            wrapper : WrapperQualifiers, kind : MarkerKinds, name : MarkerNames,
            offset : Offsets] :
        i.context = "segment" => i.wrapper[1] # "relpos_bai"}

\* the wrapper node around the marker the input describes
WrapperNodeOf(i) ==
    CASE i.wrapper[1] = "relpos_bai" ->
            RelposBaiNode(i.wrapper[2], MarkerNode(i.kind, i.name, i.offset))
      [] i.wrapper[1] = "relpos_beforeafter" ->
            RelposBeforeAfterNode(i.wrapper[2], MarkerNode(i.kind, i.name, i.offset))
      [] i.wrapper[1] = "relpos_at" -> RelposAtNode(MarkerNode(i.kind, i.name, i.offset))

RegionNodeUnder(i) ==
    IF i.context = "segment" THEN SegmentNode(WrapperNodeOf(i), WrapperNodeOf(i))
    ELSE WrapperNodeOf(i)

InitRegion ==
    /\ MainIdle
    /\ fn_in \in RegionInputs
    /\ fn_out = None

CallParseRegion ==
    /\ fn_in.fn = "parse_region"
    /\ fn_out = None
    /\ fn_out' = Some(ParseRegion(RegionNodeUnder(fn_in)))
    /\ UNCHANGED <<fn_in>>
    /\ UNCHANGED mainVars

SpecRegion == InitRegion /\ [][CallParseRegion]_vars

(* _collect_parse_errors on whole trees *)

\* top-level nodes without an error, with ERROR nodes at several depths, and
\* with a missing token only
CollectTopNodes ==
    { CommentNode,
      MvFileNode("a", "b"),
      ErrorNode(<<>>),
      ErrorNode(<<Tok("RM"), ErrorNode(<<>>)>>),
      UpdateNode(<<FileNode("a"), ErrorNode(<<>>)>>),
      UpdateNode(<<ErrorNode(<<>>), FileNode("a"), ErrorNode(<<ErrorNode(<<>>)>>)>>),
      CreateNode("a", ContentNode(ErrorNode(<<>>))) } \cup MissingNodes

CollectInputs ==
    {[fn |-> "_collect_parse_errors", root |-> RootOf(top)] :
        top \in UNION {[1..n -> CollectTopNodes] : n \in 0..MaxTop}}

InitCollect ==
    /\ MainIdle
    /\ fn_in \in CollectInputs
    /\ fn_out = None

CallCollectParseErrors ==
    /\ fn_in.fn = "_collect_parse_errors"
    /\ fn_out = None
    /\ fn_out' = Some(CollectParseErrors(fn_in.root, None, InitialOrdinal))
    /\ UNCHANGED <<fn_in>>
    /\ UNCHANGED mainVars

SpecCollect == InitCollect /\ [][CallCollectParseErrors]_vars

----------------------------------------------------------------------------
(* Properties of parse_script (specification Spec) *)

\* the two lists parse_script returned
ReturnedCommands == result[1][1]
ReturnedDiagnostics == result[1][2]

TopLevel == script.root.children

\* the number of command nodes among the first n top-level nodes
CommandNodeCount(nodes, n) == Cardinality({i \in 1..n : IsCommandType(nodes[i].type)})

\* C1: parse_script always returns a pair (commands, diagnostics) whose two lists
\* are never both non-empty; both are empty only when nothing was raised, no
\* command was built and the script has no top-level command node.
C1_CommandsOrDiagnostics ==
    pc = "done" =>
        /\ result # None
        /\ ~(ReturnedCommands # <<>> /\ ReturnedDiagnostics # <<>>)
        /\ (ReturnedCommands = <<>> /\ ReturnedDiagnostics = <<>>) =>
               /\ raised = None
               /\ commands = <<>>
               /\ \A i \in 1..Len(TopLevel) : ~IsCommandType(TopLevel[i].type)

\* a command was built, then the builder failed, and only the diagnostic is returned
C1_FailedAfterOneBuilt ==
    /\ pc = "done"
    /\ raised # None
    /\ Len(commands) = 1
    /\ ReturnedCommands = <<>>
    /\ ReturnedDiagnostics # <<>>

\* C2: for every script whose tree holds a node the engine flags as erroneous
\* (the root's has_error is set), no command is built, parse_script returns no
\* command and at least one diagnostic, and every diagnostic has line >= 1 and
\* column >= 1.
C2_ErroneousTreeYieldsDiagnostics ==
    (pc = "done" /\ ~script.fails /\ script.root.has_error) =>
        /\ commands = <<>>
        /\ ReturnedCommands = <<>>
        /\ Len(ReturnedDiagnostics) >= 1
        /\ \A i \in 1..Len(ReturnedDiagnostics) :
               ReturnedDiagnostics[i].line >= 1 /\ ReturnedDiagnostics[i].column >= 1

\* the well-formed top-level nodes: complete commands of the four known kinds
WellFormedCommandNodes == GoodCommandNodes \cup BlockCommandNodes

\* node is a well-formed command or a comment, wherever it is placed
IsWellFormedTopNode(node) ==
    PlaceAt(node, 0, 0) \in {PlaceAt(n, 0, 0) : n \in WellFormedCommandNodes \cup {CommentNode}}

\* C3: for every script whose top-level nodes are only well-formed command nodes
\* and comments, parse_script returns no diagnostic and one command per
\* top-level command node.
C3_OneCommandPerCommandNode ==
    (/\ pc = "done"
     /\ ~script.fails
     /\ \A i \in 1..Len(TopLevel) : IsWellFormedTopNode(TopLevel[i])) =>
        /\ ReturnedDiagnostics = <<>>
        /\ Len(ReturnedCommands) = CommandNodeCount(TopLevel, Len(TopLevel))

SyntheticSuggestion == Message("Revise your CEDARScript syntax.", <<>>)

\* C4: whenever a step of parse_script raises (building the tree, or building
\* the k-th top-level command), the call returns: no command, and exactly one
\* diagnostic with line 0, column 0, the generic suggestion and the exception's
\* description as message; the commands built before are not returned.
C4_FailureBecomesOneDiagnostic ==
    raised # None =>
        /\ pc = "done"
        /\ result # None
        /\ ReturnedCommands = <<>>
        /\ Len(ReturnedDiagnostics) = 1
        /\ ReturnedDiagnostics[1].line = 0
        /\ ReturnedDiagnostics[1].column = 0
        /\ ReturnedDiagnostics[1].suggestion = SyntheticSuggestion
        /\ ReturnedDiagnostics[1].message = Message(raised[1].msg, <<>>)

\* the third top-level node failed after two commands were built and discarded
C4_TwoCommandsDiscarded ==
    /\ raised # None
    /\ raised[1].step = "build"
    /\ raised[1].at = 3
    /\ Len(commands) = 2
    /\ ReturnedCommands = <<>>
    /\ ReturnedDiagnostics[1].line = 0

\* C5: command_ordinal is 1 until the loop starts; inside the loop it is 1 plus
\* the number of command nodes among the top-level nodes already processed
\* (comments and other nodes do not count); a failure of the builder on the
\* k-th command node is reported with command_ordinal k.
C5_OrdinalCountsCommandNodes ==
    /\ pc \in {"start", "collect"} => command_ordinal = 1
    /\ pc = "loop" => command_ordinal = 1 + CommandNodeCount(TopLevel, idx - 1)
    /\ (pc = "done" /\ raised # None /\ raised[1].step = "build") =>
           ReturnedDiagnostics[1].command_ordinal = CommandNodeCount(TopLevel, raised[1].at)
    /\ (pc = "done" /\ raised # None /\ raised[1].step = "tree") =>
           ReturnedDiagnostics[1].command_ordinal = 1

\* a comment, a command that is built, then a command that fails: the failure
\* at the third top-level node is reported with ordinal 2
C5_SecondCommandFailsAfterComment ==
    /\ pc = "done"
    /\ raised # None
    /\ raised[1].step = "build"
    /\ raised[1].at = 3
    /\ ~IsCommandType(TopLevel[1].type)
    /\ Len(commands) = 1
    /\ ReturnedDiagnostics[1].command_ordinal = 2

\* C6: every diagnostic of the collector for an error node inside the k-th
\* top-level command node carries command_ordinal k (top-level nodes lie one
\* per row, so a diagnostic of line l belongs to the l-th top-level node).
C6_CollectorOrdinalIsCommandCount ==
    (pc = "done" /\ raised = None) =>
        \A i \in 1..Len(ReturnedDiagnostics) :
            IsCommandType(TopLevel[ReturnedDiagnostics[i].line].type) =>
                ReturnedDiagnostics[i].command_ordinal
                    = CommandNodeCount(TopLevel, ReturnedDiagnostics[i].line)

----------------------------------------------------------------------------
(* Properties of the pure functions *)

\* the file paths a command touches
PathsTouched(cmd) ==
    CASE cmd.cls \in {"CreateCommand", "RmFileCommand"} -> <<cmd.file_path>>
      [] cmd.cls = "MvFileCommand" -> <<cmd.file_path, cmd.target_path>>
      [] cmd.cls = "UpdateCommand" ->
            <<cmd.target.file_path>>
                \o (IF cmd.action.cls = "MoveClause" /\ cmd.action.to_other_file # None
                    THEN <<cmd.action.to_other_file[1].file_path>>
                    ELSE <<>>)

\* C7 (specification SpecFiles): files_to_change returns file paths only, and
\* exactly those of the files the command touches: (file_path) for Create and
\* Rm, (file_path, target_path) for Mv, (target.file_path) for an Update that
\* is no cross-file Move, (target.file_path, to_other_file.file_path) for an
\* Update whose Move has to_other_file set.
C7_FilesToChangeArePathsTouched ==
    fn_out # None =>
        /\ \A i \in 1..Len(fn_out[1]) : fn_out[1][i].cls = "str"
        /\ fn_out[1] = PathsTouched(fn_in.cmd)

\* every line of the block carries both an indent directive and text
AllLinesFull(ls) == \A i \in 1..Len(ls) : ls[i].prefix # None /\ ls[i].content # None

\* N * 4 spaces then the text, for each line, joined by one newline
IndentedText(ls) ==
    Join(<<NL>>, [i \in 1..Len(ls) |-> Repeat(<<SP>>, 4 * ls[i].prefix[1]) \o ls[i].content[1]])

\* C8 (specification SpecIndent): for a block whose lines each carry an indent
\* directive @N: followed by text, parse_relative_indent_block returns, line by
\* line in source order, N * 4 spaces followed by the line's text, the lines
\* joined by a single newline.
C8_BlockIsIndentedText ==
    (fn_out # None /\ AllLinesFull(fn_in.lines)) =>
        fn_out[1] = Ok(IndentedText(fn_in.lines))

\* the token without its first and its last character
WithoutDelimiters(token) == SubSeq(token, 2, Len(token) - 1)

\* one layer of quotes removed, and in the style with escapes \' and \" unescaped
OneLayerStripped(style, token) ==
    IF style = "single_quoted_string"
    THEN Replace(Replace(WithoutDelimiters(token), <<BS, SQ>>, <<SQ>>), <<BS, DQ>>, <<DQ>>)
    ELSE WithoutDelimiters(token)

\* C9 (specification SpecString): parse_string removes exactly the delimiting
\* pair of quotes of a quoted token, unescaping \' and \" in the style with
\* escapes; quote characters of the content, also those next to a delimiter,
\* are kept.
C9_OneLayerOfQuotesStripped ==
    fn_out # None =>
        fn_out[1] = Ok(OneLayerStripped(fn_in.style, Quoted(fn_in.quote, fn_in.content)))

\* the region each source node of MoveInputs stands for
SourceRegionOf(kind) ==
    CASE kind = "marker" -> Marker("line", <<"1">>, None)
      [] kind = "segment" ->
            Segment(RelativeMarker("before", "line", <<"1">>, None),
                    RelativeMarker("after", "function", <<"f">>, Some(2)))
      [] kind = "body" -> BodyOrWhole("body")
      [] kind = "whole" -> BodyOrWhole("whole")

\* C10 (specification SpecMove): for a move action node with a source region, a
\* destination holding an insert clause with qualifier q and marker m, and an
\* optional relative indentation r, parse_move_clause returns the MoveClause
\* whose region is the parsed source region, whose insert_position is the
\* RelativeMarker of qualifier q with m's kind, value and offset, whose
\* relative_indentation is r (None without the clause) and whose to_other_file
\* is None.
C10_MoveClauseBuilt ==
    fn_out # None =>
        /\ ParseRegion(SourceNodeOf(fn_in.source)) = Ok(SourceRegionOf(fn_in.source))
        /\ fn_out[1] =
               Ok(MoveClause(SourceRegionOf(fn_in.source),
                             RelativeMarker(Casefold(fn_in.qualifier), Casefold(fn_in.kind),
                                            <<fn_in.name>>, fn_in.offset),
                             None, fn_in.indent))

\* MOVE a segment, INSERT AFTER a function marker with an offset, RELATIVE
\* INDENTATION 1
C10_MoveSegmentAfterFunction ==
    /\ fn_out # None
    /\ fn_in.source = "segment"
    /\ fn_in.qualifier = "AFTER"
    /\ fn_in.kind = "FUNCTION"
    /\ fn_in.offset = Some(1)
    /\ fn_in.indent = Some(1)
    /\ fn_out[1].ok
    /\ fn_out[1].val.insert_position.qualifier = "after"
    /\ fn_out[1].val.relative_indentation = Some(1)
    /\ fn_out[1].val.to_other_file = None

\* the failures the builder raises by an explicit check, each naming what it
\* found wrong
NamedConditions ==
    {"No valid target found in update command",
     "No valid action found in update command",
     "Invalid identifier_from_file clause",
     "Expected singlefile_clause node", "No file_path found in singlefile_clause",
     "Expected content_clause node", "No content found in content_clause",
     "Expected to_value_clause node", "No value found in to_value_clause",
     "No condition found in where clause"}

\* C11 (specification SpecIncomplete): an update command that lacks a required
\* part (the target, the action, the file or where clause of an
\* identifier-from-file, the region of a delete, replace or move, the
\* destination or the insert clause of a move) makes the builder fail, without
\* a command, with the named condition of that part: no-valid-target,
\* no-valid-action, invalid-identifier-clause, and for the other parts one of
\* the conditions the builder raises by an explicit check.
C11_MissingPartIsNamed ==
    (fn_out # None /\ fn_in.missing # "none") =>
        /\ ~fn_out[1].ok
        /\ fn_in.missing = "target" =>
               fn_out[1].msg = "No valid target found in update command"
        /\ fn_in.missing = "action" =>
               fn_out[1].msg = "No valid action found in update command"
        /\ fn_in.missing \in {"identifier_file", "identifier_where"} =>
               fn_out[1].msg = "Invalid identifier_from_file clause"
        /\ fn_out[1].msg \in NamedConditions

\* the RelativeMarker carrying the wrapper's qualifier and the marker's kind,
\* value and offset
QualifiedMarkerOf(i) ==
    RelativeMarker(Casefold(i.wrapper[2]), Casefold(i.kind), <<i.name>>, i.offset)

\* C12 (specification SpecRegion): whenever parse_region goes through a
\* relative-position wrapper (relpos_bai, relpos_beforeafter or relpos_at) it
\* returns a RelativeMarker with the wrapper's qualifier (AT, BEFORE, AFTER or
\* INSIDE) and the leaf marker's kind, value and offset; both ends of a Segment
\* are therefore RelativeMarkers with a qualifier.
C12_WrapperYieldsRelativeMarker ==
    fn_out # None =>
        fn_out[1] = Ok(IF fn_in.context = "segment"
                       THEN Segment(QualifiedMarkerOf(fn_in), QualifiedMarkerOf(fn_in))
                       ELSE QualifiedMarkerOf(fn_in))

\* the nodes of type ERROR of a tree, in pre-order
RECURSIVE ErrorMarkers(_), ErrorMarkersOfAll(_)
ErrorMarkers(node) ==
    (IF node.type = "ERROR" THEN <<node>> ELSE <<>>) \o ErrorMarkersOfAll(node.children)
ErrorMarkersOfAll(nodes) ==
    IF nodes = <<>> THEN <<>>
    ELSE ErrorMarkers(Head(nodes)) \o ErrorMarkersOfAll(Tail(nodes))

\* 1-based start line and column of each node of the list
StartPositions(nodes) == [i \in 1..Len(nodes) |-> <<nodes[i].row + 1, nodes[i].col + 1>>]

\* line and column of each diagnostic of the list
ReportedPositions(diagnostics) ==
    [i \in 1..Len(diagnostics) |-> <<diagnostics[i].line, diagnostics[i].column>>]

\* C13 (specification SpecCollect): _collect_parse_errors returns exactly one
\* diagnostic per node whose own type is ERROR, also for an ERROR node inside
\* another ERROR node, and none for a node that only contains an error; the
\* diagnostics are in pre-order of their nodes, each with line = start row + 1
\* and column = start column + 1.
C13_OneDiagnosticPerErrorNode ==
    fn_out # None =>
        /\ Len(fn_out[1]) = Len(ErrorMarkers(fn_in.root))
        /\ ReportedPositions(fn_out[1]) = StartPositions(ErrorMarkers(fn_in.root))

\* an update command holding three ERROR nodes, one of them nested, followed by
\* a top-level ERROR node: four diagnostics, none for the command or the root
C13_NestedAndSiblingErrors ==
    /\ fn_out # None
    /\ Len(fn_in.root.children) = 2
    /\ fn_in.root.children[1].type = "update_command"
    /\ fn_in.root.children[2].type = "ERROR"
    /\ Len(fn_out[1]) = 4
    /\ ReportedPositions(fn_out[1]) = << <<1, 3>>, <<1, 5>>, <<1, 6>>, <<2, 1>> >>

====
